---- MODULE Spec2Model ----
(***************************************************************************)
(* Model of backend/app.py: the Flask relay with the three routes          *)
(* /health, /get-arv and /test-rentcast.  One request is followed from its *)
(* arrival to its response; the outbound RentCast call is the only point   *)
(* where a handler waits for its environment, so each calling handler is   *)
(* split there into a "begin" and an "end" action.                         *)
(*                                                                         *)
(* Python values: None is NoneV, a dict is a function over the keys it     *)
(* holds, a string is a TLA+ string, an f-string is the tuple of its       *)
(* literal part and its interpolated parts.                                *)
(***************************************************************************)
EXTENDS Integers, Sequences, FiniteSets, TLC

VARIABLES pc, endpoint, data, address, city, state, zip_code,
          calls, params, provider, resp

vars == <<pc, endpoint, data, address, city, state, zip_code,
          calls, params, provider, resp>>

(***************************************************************************)
(* Bounds                                                                  *)
(***************************************************************************)
\* Largest number of property fields an inbound payload holds, over its
\* root level, its customData and its contact together.
MaxPopulated == 4

\* Largest number of those fields that hold the empty string.
MaxEmpty == 1

(***************************************************************************)
(* Python values                                                           *)
(***************************************************************************)
NoneV == "<None>"
Unbound == "<unbound>"
EmptyDict == [k \in {} |-> NoneV]

\* bool(v) for the values of the model: None and "" are falsy
Truthy(v) == v \notin {NoneV, ""}

\* dict.get(key): the value, None when the key is absent
PyGet(m, key) == IF key \in DOMAIN m THEN m[key] ELSE NoneV

\* dict.get(key, default)
PyGetDefault(m, key, default) == IF key \in DOMAIN m THEN m[key] ELSE default

(***************************************************************************)
(* Inbound payloads                                                        *)
(***************************************************************************)
RootKeys == {"address", "address1", "city", "state", "zipCode", "postal_code"}
CustomKeys == {"address", "city", "state", "zipCode"}
ContactKeys == {"address1", "city", "state", "postal_code"}

\* The non-empty value a field holds at each place.  The values differ from
\* place to place within one field's chain, so that the place a resolved
\* value came from can be read off the value.
RootVal ==
    [k \in RootKeys |->
    CASE k = "address"     -> "12 Oak St"
      [] k = "address1"    -> "78 Ash Ave"
      [] k = "city"        -> "Austin"
      [] k = "state"       -> "TX"
      [] k = "zipCode"     -> "78701"
      [] k = "postal_code" -> "78702"]

CustomVal ==
    [k \in CustomKeys |->
    CASE k = "address" -> "34 Elm St"
      [] k = "city"    -> "Dallas"
      [] k = "state"   -> "CA"
      [] k = "zipCode" -> "78703"]

ContactVal ==
    [k \in ContactKeys |->
    CASE k = "address1"    -> "56 Pine Rd"
      [] k = "city"        -> "Houston"
      [] k = "state"       -> "NY"
      [] k = "postal_code" -> "78704"]

\* The dicts holding at most n of the keys, each key present holding its
\* non-empty value or, for at most e of them, the empty string.
FieldDicts(keys, val, n, e) ==
    UNION { { [k \in S |-> IF k \in E THEN "" ELSE val[k]]
                : E \in {F \in SUBSET S : Cardinality(F) <= e} }
            : S \in {T \in SUBSET keys : Cardinality(T) <= n} }

Populated(m) == Cardinality(DOMAIN m)

Empties(m) == Cardinality({k \in DOMAIN m : m[k] = ""})

\* What the root key `customData` or `contact` holds: nothing (the key is
\* absent), null, a value that is no mapping (a string, a list), or a dict.
Nested(kind, m) == [kind |-> kind, map |-> m]

NestedValues(keys, val, n, e) ==
    {Nested(k, EmptyDict) : k \in {"absent", "null", "nonmap"}}
        \cup {Nested("map", m) : m \in FieldDicts(keys, val, n, e)}

Payload(kind, root, custom, contact) ==
    [kind |-> kind, root |-> root, customData |-> custom, contact |-> contact]

\* The bodies of a POST /get-arv that are no JSON object: no JSON at all,
\* or JSON that is no object (null, a list).
NonObjectPayloads ==
    { Payload(k, EmptyDict, Nested("absent", EmptyDict), Nested("absent", EmptyDict))
        : k \in {"unparseable", "nonmap"} }

\* The bodies that are a JSON object hold at most MaxPopulated fields, at
\* most MaxEmpty of them empty.
RootDicts == FieldDicts(RootKeys, RootVal, MaxPopulated, MaxEmpty)

CustomValues(r) ==
    NestedValues(CustomKeys, CustomVal,
                 MaxPopulated - Populated(r), MaxEmpty - Empties(r))

ContactValues(r, cu) ==
    NestedValues(ContactKeys, ContactVal,
                 MaxPopulated - Populated(r) - Populated(cu.map),
                 MaxEmpty - Empties(r) - Empties(cu.map))

NoPayload == Payload("none", EmptyDict, Nested("absent", EmptyDict), Nested("absent", EmptyDict))

(***************************************************************************)
(* Exceptions                                                              *)
(***************************************************************************)
Exc(cls, desc) == [cls |-> cls, desc |-> desc]

\* The classes an exception of class cls is an instance of.
\* requests.exceptions: Timeout, ConnectionError and (requests >= 2.27)
\* JSONDecodeError derive from RequestException; werkzeug's BadRequest and
\* the built-in AttributeError and ValueError derive from Exception only.
Bases(cls) ==
    CASE cls = "Timeout"                 -> {"Timeout", "RequestException", "Exception"}
      [] cls = "ConnectionError"         -> {"ConnectionError", "RequestException", "Exception"}
      [] cls = "RequestsJSONDecodeError" -> {"RequestsJSONDecodeError", "RequestException", "ValueError", "Exception"}
      [] cls = "ValueError"              -> {"ValueError", "Exception"}
      [] cls = "AttributeError"          -> {"AttributeError", "Exception"}
      [] cls = "BadRequest"              -> {"BadRequest", "Exception"}

IsInstance(e, cls) == cls \in Bases(e.cls)

\* What response.json() raises on a body that is no JSON: requests'
\* JSONDecodeError, or with an older requests the json module's ValueError.
JsonErrorClasses == {"RequestsJSONDecodeError", "ValueError"}

BadRequestError == Exc("BadRequest", "400 Bad Request: Failed to decode JSON object")
NoGetError == Exc("AttributeError", "object has no attribute 'get'")
JsonError(cls) == Exc(cls, "Expecting value: line 1 column 1 (char 0)")

(***************************************************************************)
(* HTTP responses of the relay                                             *)
(***************************************************************************)
Response(status, body) == [status |-> status, body |-> body]

NoResponse == Response(0, EmptyDict)

(***************************************************************************)
(* The provider and its answers                                            *)
(***************************************************************************)
Body(kind, text, obj) == [kind |-> kind, text |-> text, obj |-> obj]

NoBody == Body("none", "", EmptyDict)

\* JSON objects of the provider: `price` and `confidence` each present or
\* not (confidence in hundredths: 80 is 0.8).
ProviderVals(k) ==
    CASE k = "price"      -> {250000}
      [] k = "confidence" -> {80}

ProviderObjects ==
    UNION { {f \in [S -> UNION {ProviderVals(k) : k \in S}] : \A k \in S : f[k] \in ProviderVals(k)}
            : S \in SUBSET {"price", "confidence"} }

\* Response bodies: text that is no JSON, JSON that is no object, and the
\* JSON objects.
Bodies ==
    {Body("text", "Service Unavailable", EmptyDict), Body("json_array", "[]", EmptyDict)}
        \cup {Body("json_object", "{...}", f) : f \in ProviderObjects}

\* The bodies that come with a status other than 200
ErrorBodies ==
    {Body("text", "Service Unavailable", EmptyDict),
     Body("json_object", "{...}", [price |-> 250000, confidence |-> 80])}

ErrorStatusCodes == {204, 400, 503}

Outcome(kind, status, body, desc) ==
    [kind |-> kind, status |-> status, body |-> body, desc |-> desc]

NoOutcome == Outcome("none", 0, NoBody, "")

\* What requests.get(..., timeout=10) can end in: an HTTP response, a
\* timeout, or another failure of the transport.
ProviderOutcomes ==
    {Outcome("response", 200, b, "") : b \in Bodies}
        \cup {Outcome("response", s, b, "") : s \in ErrorStatusCodes, b \in ErrorBodies}
        \cup {Outcome("timeout", 0, NoBody, "Read timed out. (read timeout=10)")}
        \cup {Outcome("connection_error", 0, NoBody, "Connection reset by peer")}

\* The exception requests.get raises for an outcome that is no response.
TransportError(o) ==
    IF o.kind = "timeout" THEN Exc("Timeout", o.desc) ELSE Exc("ConnectionError", o.desc)

(***************************************************************************)
(* Field extraction (get_after_repair_value, lines 37-65)                  *)
(***************************************************************************)
\* data.get('customData', {}) and data.get('contact', {}): the default {}
\* stands in for an absent key only; null and non-mappings come back as
\* they are.
custom_data(d) ==
    IF d.customData.kind = "absent" THEN Nested("map", EmptyDict) ELSE d.customData

contact_data(d) ==
    IF d.contact.kind = "absent" THEN Nested("map", EmptyDict) ELSE d.contact

Raised == "<AttributeError>"

\* x.get(key) on what a nested key holds: only a dict has .get
NestedGet(n, key) == IF n.kind = "map" THEN PyGet(n.map, key) ELSE Raised

\* One operand of an `or` chain: <<place, key>>
Lookup(d, operand) ==
    CASE operand[1] = "data"       -> PyGet(d.root, operand[2])
      [] operand[1] = "customData" -> NestedGet(custom_data(d), operand[2])
      [] operand[1] = "contact"    -> NestedGet(contact_data(d), operand[2])

\* AddressChain with customData looked up before the root level
AddressChain_CustomFirst ==
    << <<"customData", "address">>, <<"data", "address">>,
       <<"contact", "address1">>, <<"data", "address1">> >>

AddressChain ==
    << <<"data", "address">>, <<"customData", "address">>,
       <<"contact", "address1">>, <<"data", "address1">> >>

CityChain ==
    << <<"data", "city">>, <<"customData", "city">>, <<"contact", "city">> >>

StateChain ==
    << <<"data", "state">>, <<"customData", "state">>, <<"contact", "state">> >>

\* ZipChain with customData.zipCode looked up before the root postal_code
ZipChain_CustomBeforePostal ==
    << <<"data", "zipCode">>, <<"customData", "zipCode">>,
       <<"data", "postal_code">>, <<"contact", "postal_code">> >>

ZipChain ==
    << <<"data", "zipCode">>, <<"data", "postal_code">>,
       <<"customData", "zipCode">>, <<"contact", "postal_code">> >>

\* Python's `a or b or ...` from operand i on: operands are evaluated left
\* to right, the first truthy one is the value, the last one is the value
\* when none is truthy, and an operand that raises ends the evaluation.
RECURSIVE OrChain(_, _, _)
OrChain(d, chain, i) ==
    LET v == Lookup(d, chain[i])
    IN  IF v = Raised \/ Truthy(v) \/ i = Len(chain)
        THEN v
        ELSE OrChain(d, chain, i + 1)

\* The four assignments in order; the first that raises leaves its own and
\* the later names unbound.
Extract(d) ==
    LET a == OrChain(d, AddressChain, 1)
        c == IF a = Raised THEN Raised ELSE OrChain(d, CityChain, 1)
        s == IF c = Raised THEN Raised ELSE OrChain(d, StateChain, 1)
        z == IF s = Raised THEN Raised ELSE OrChain(d, ZipChain, 1)
        Bound(v) == IF v = Raised THEN Unbound ELSE v
    IN  [raised |-> z = Raised,
         address |-> Bound(a), city |-> Bound(c), state |-> Bound(s), zipCode |-> Bound(z)]

\* AllFields without the zip code
AllFields_NoZip(a, c, s, z) == Truthy(a) /\ Truthy(c) /\ Truthy(s)

\* all([address, city, state, zip_code])
AllFields(a, c, s, z) == Truthy(a) /\ Truthy(c) /\ Truthy(s) /\ Truthy(z)

PropertyQuery(a, c, s, z) == [address |-> a, city |-> c, state |-> s, zipCode |-> z]

NoParams == PropertyQuery(Unbound, Unbound, Unbound, Unbound)

(***************************************************************************)
(* Responses of get_after_repair_value                                     *)
(***************************************************************************)
\* ValidationResponse sent with status 200
ValidationResponse_Status200(d, a, c, s, z) ==
    Response(200, [success |-> FALSE,
                   error |-> <<"Missing required fields: address, city, state, zipCode">>,
                   receivedData |-> d,
                   extracted |-> PropertyQuery(a, c, s, z)])

ValidationResponse(d, a, c, s, z) ==
    Response(400, [success |-> FALSE,
                   error |-> <<"Missing required fields: address, city, state, zipCode">>,
                   receivedData |-> d,
                   extracted |-> PropertyQuery(a, c, s, z)])

\* IsFailureStatus taking every 2xx status for a success
IsFailureStatus_Non2xx(status_code) == status_code \notin 200..299

\* rentcast_response.status_code != 200
IsFailureStatus(status_code) == status_code /= 200

ProviderErrorResponse(r) ==
    Response(r.status, [success |-> FALSE,
                        error |-> <<"RentCast API error: ", r.body.text>>])

\* SuccessResponse reading the value from the wrong key of the provider's object
SuccessResponse_WrongKey(a, c, s, z, rentcast_data) ==
    Response(200, [success |-> TRUE,
                   property |-> PropertyQuery(a, c, s, z),
                   afterRepairValue |-> PyGetDefault(rentcast_data, "value", 0),
                   confidenceScore |-> PyGetDefault(rentcast_data, "confidence", 0),
                   fullData |-> rentcast_data])

SuccessResponse(a, c, s, z, rentcast_data) ==
    Response(200, [success |-> TRUE,
                   property |-> PropertyQuery(a, c, s, z),
                   afterRepairValue |-> PyGetDefault(rentcast_data, "price", 0),
                   confidenceScore |-> PyGetDefault(rentcast_data, "confidence", 0),
                   fullData |-> rentcast_data])

\* HandleException with the RequestException clause written first
HandleException_RequestFirst(e) ==
    IF IsInstance(e, "RequestException")
    THEN Response(500, [success |-> FALSE, error |-> <<"Error calling RentCast API: ", e.desc>>])
    ELSE IF IsInstance(e, "Timeout")
    THEN Response(504, [success |-> FALSE, error |-> <<"RentCast API request timed out">>])
    ELSE Response(500, [success |-> FALSE, error |-> <<"Internal server error: ", e.desc>>])

\* HandleException answering a transport failure with 502
HandleException_Transport502(e) ==
    IF IsInstance(e, "Timeout")
    THEN Response(504, [success |-> FALSE, error |-> <<"RentCast API request timed out">>])
    ELSE IF IsInstance(e, "RequestException")
    THEN Response(502, [success |-> FALSE, error |-> <<"Error calling RentCast API: ", e.desc>>])
    ELSE Response(500, [success |-> FALSE, error |-> <<"Internal server error: ", e.desc>>])

\* The except clauses, tried in the order they are written.
HandleException(e) ==
    IF IsInstance(e, "Timeout")
    THEN Response(504, [success |-> FALSE, error |-> <<"RentCast API request timed out">>])
    ELSE IF IsInstance(e, "RequestException")
    THEN Response(500, [success |-> FALSE, error |-> <<"Error calling RentCast API: ", e.desc>>])
    ELSE Response(500, [success |-> FALSE, error |-> <<"Internal server error: ", e.desc>>])

\* Lines 102-132 inside the try: what the handler does with the outcome of
\* requests.get.  jsoncls is the class response.json() raises with.
AfterCall(a, c, s, z, o, jsoncls) ==
    IF o.kind /= "response" THEN HandleException(TransportError(o))
    ELSE IF IsFailureStatus(o.status) THEN ProviderErrorResponse(o)
    ELSE IF o.body.kind = "text" THEN HandleException(JsonError(jsoncls))
    ELSE IF o.body.kind = "json_array" THEN HandleException(NoGetError)
    ELSE SuccessResponse(a, c, s, z, o.body.obj)

(***************************************************************************)
(* Responses of test_rentcast and health_check                             *)
(***************************************************************************)
SampleQuery == PropertyQuery("5500 Grand Lake Drive", "San Antonio", "TX", "78244")

\* response.json() if response.status_code == 200 else response.text;
\* JSON that is no object parses, and is passed on as it is.
TestData(o) ==
    IF o.status = 200
    THEN [json |-> TRUE, kind |-> o.body.kind, text |-> o.body.text, obj |-> o.body.obj]
    ELSE [json |-> FALSE, kind |-> "text", text |-> o.body.text, obj |-> EmptyDict]

\* TestRentcastResponse reporting success for every provider response
TestRentcastResponse_AlwaysSuccess(o, jsoncls) ==
    IF o.kind /= "response"
    THEN Response(500, [success |-> FALSE, error |-> <<TransportError(o).desc>>])
    ELSE IF o.status = 200 /\ o.body.kind = "text"
    THEN Response(500, [success |-> FALSE, error |-> <<JsonError(jsoncls).desc>>])
    ELSE Response(200, [success |-> TRUE,
                        statusCode |-> o.status,
                        data |-> TestData(o)])

TestRentcastResponse(o, jsoncls) ==
    IF o.kind /= "response"
    THEN Response(500, [success |-> FALSE, error |-> <<TransportError(o).desc>>])
    ELSE IF o.status = 200 /\ o.body.kind = "text"
    THEN Response(500, [success |-> FALSE, error |-> <<JsonError(jsoncls).desc>>])
    ELSE Response(200, [success |-> o.status = 200,
                        statusCode |-> o.status,
                        data |-> TestData(o)])

HealthResponse ==
    Response(200, [status |-> "healthy", message |-> "Server is running"])

(***************************************************************************)
(* The state machine                                                       *)
(***************************************************************************)
Init ==
    /\ pc = "idle"
    /\ endpoint = "none"
    /\ data = NoPayload
    /\ address = Unbound
    /\ city = Unbound
    /\ state = Unbound
    /\ zip_code = Unbound
    /\ calls = 0
    /\ params = NoParams
    /\ provider = NoOutcome
    /\ resp = NoResponse

\* GET /health
health_check ==
    /\ pc = "idle"
    /\ pc' = "responded"
    /\ endpoint' = "health"
    /\ resp' = HealthResponse
    /\ UNCHANGED <<data, address, city, state, zip_code, calls, params, provider>>

\* POST /get-arv with body d, up to the outbound call (lines 29-100)
get_after_repair_value_begin(d) ==
    /\ pc = "idle"
    /\ endpoint' = "get-arv"
    /\ data' = d
    /\ provider' = provider
    /\ IF d.kind = "unparseable"
       THEN /\ resp' = HandleException(BadRequestError)
            /\ pc' = "responded"
            /\ UNCHANGED <<address, city, state, zip_code, calls, params>>
       ELSE IF d.kind /= "map"
       THEN /\ resp' = HandleException(NoGetError)
            /\ pc' = "responded"
            /\ UNCHANGED <<address, city, state, zip_code, calls, params>>
       ELSE LET e == Extract(d)
            IN  /\ address' = e.address
                /\ city' = e.city
                /\ state' = e.state
                /\ zip_code' = e.zipCode
                /\ IF e.raised
                   THEN /\ resp' = HandleException(NoGetError)
                        /\ pc' = "responded"
                        /\ UNCHANGED <<calls, params>>
                   ELSE IF ~AllFields(e.address, e.city, e.state, e.zipCode)
                   THEN /\ resp' = ValidationResponse(d, e.address, e.city, e.state, e.zipCode)
                        /\ pc' = "responded"
                        /\ UNCHANGED <<calls, params>>
                   ELSE /\ params' = PropertyQuery(e.address, e.city, e.state, e.zipCode)
                        /\ calls' = calls + 1
                        /\ pc' = "calling"
                        /\ resp' = resp

\* POST /get-arv from the return (or the raise) of requests.get on
\* (lines 95-151)
get_after_repair_value_end(o, jsoncls) ==
    /\ pc = "calling"
    /\ endpoint = "get-arv"
    /\ provider' = o
    /\ resp' = AfterCall(address, city, state, zip_code, o, jsoncls)
    /\ pc' = "responded"
    /\ UNCHANGED <<endpoint, data, address, city, state, zip_code, calls, params>>

\* GET /test-rentcast up to the outbound call (lines 156-174)
test_rentcast_begin ==
    /\ pc = "idle"
    /\ endpoint' = "test-rentcast"
    /\ params' = SampleQuery
    /\ calls' = calls + 1
    /\ pc' = "calling"
    /\ UNCHANGED <<data, address, city, state, zip_code, provider, resp>>

\* GET /test-rentcast from the return (or the raise) of requests.get on
\* (lines 169-186)
test_rentcast_end(o, jsoncls) ==
    /\ pc = "calling"
    /\ endpoint = "test-rentcast"
    /\ provider' = o
    /\ resp' = TestRentcastResponse(o, jsoncls)
    /\ pc' = "responded"
    /\ UNCHANGED <<endpoint, data, address, city, state, zip_code, calls, params>>

\* The response is sent; nothing of the request is kept.
Finish ==
    /\ pc = "responded"
    /\ pc' = "idle"
    /\ endpoint' = "none"
    /\ data' = NoPayload
    /\ address' = Unbound
    /\ city' = Unbound
    /\ state' = Unbound
    /\ zip_code' = Unbound
    /\ calls' = 0
    /\ params' = NoParams
    /\ provider' = NoOutcome
    /\ resp' = NoResponse

Next ==
    \/ health_check
    \/ pc = "idle" /\ \E d \in NonObjectPayloads : get_after_repair_value_begin(d)
    \/ pc = "idle" /\ \E r \in RootDicts : \E cu \in CustomValues(r) : \E co \in ContactValues(r, cu) :
            get_after_repair_value_begin(Payload("map", r, cu, co))
    \/ pc = "calling" /\ \E o \in ProviderOutcomes, jsoncls \in JsonErrorClasses :
            get_after_repair_value_end(o, jsoncls)
    \/ test_rentcast_begin
    \/ pc = "calling" /\ \E o \in ProviderOutcomes, jsoncls \in JsonErrorClasses :
            test_rentcast_end(o, jsoncls)
    \/ Finish

Spec == Init /\ [][Next]_vars

(***************************************************************************)
(* Properties                                                              *)
(***************************************************************************)
Responded(ep) == pc = "responded" /\ endpoint = ep

\* s is one of the parts of the message
Contains(message, s) == \E i \in DOMAIN message : message[i] = s

\* A message is a non-empty string
IsMessage(message) == Len(message) >= 1 /\ message[1] /= ""

\* The ordered places of each field as the specification lists them
SpecChain(field) ==
    CASE field = "address" -> << <<"data", "address">>, <<"customData", "address">>,
                                 <<"contact", "address1">>, <<"data", "address1">> >>
      [] field = "city"    -> << <<"data", "city">>, <<"customData", "city">>,
                                 <<"contact", "city">> >>
      [] field = "state"   -> << <<"data", "state">>, <<"customData", "state">>,
                                 <<"contact", "state">> >>
      [] field = "zipCode" -> << <<"data", "zipCode">>, <<"data", "postal_code">>,
                                 <<"customData", "zipCode">>, <<"contact", "postal_code">> >>

Fields == {"address", "city", "state", "zipCode"}

\* What a place of the payload holds; a place inside a customData or
\* contact that is absent, null or no mapping holds nothing.
PlaceValue(d, place) ==
    LET m == CASE place[1] = "data"       -> d.root
               [] place[1] = "customData" -> d.customData.map
               [] place[1] = "contact"    -> d.contact.map
    IN  IF place[2] \in DOMAIN m THEN m[place[2]] ELSE NoneV

NonEmptyPlaces(d, field) ==
    {i \in 1..Len(SpecChain(field)) : Truthy(PlaceValue(d, SpecChain(field)[i]))}

FirstOf(S) == CHOOSE i \in S : \A j \in S : i <= j

\* The field is missing after fallback resolution
MissingField(d, field) == NonEmptyPlaces(d, field) = {}

Resolved(field) ==
    CASE field = "address" -> address
      [] field = "city"    -> city
      [] field = "state"   -> state
      [] field = "zipCode" -> zip_code

\* C1: every object payload with a field missing after fallback resolution,
\* whatever its contact and customData hold, is answered 400 with
\* success false, the payload as receivedData and the extracted map.
C1_MissingFieldIs400 ==
    (Responded("get-arv") /\ data.kind = "map" /\ \E f \in Fields : MissingField(data, f))
        => /\ resp.status = 400
           /\ resp.body.success = FALSE
           /\ resp.body.receivedData = data
           /\ DOMAIN resp.body.extracted = Fields

TestCallRaised ==
    \/ provider.kind /= "response"
    \/ provider.status = 200 /\ provider.body.kind = "text"

ProviderFailurePath ==
    /\ resp.body.success = FALSE
    /\ resp.body.error[1] = "RentCast API error: "

\* C3 as stated: a provider answer with a non-2xx status s and body b is
\* relayed as status s, success false and an error containing b, and an
\* answer with a 2xx status never takes that path.
C3_Non2xxRelayed ==
    (Responded("get-arv") /\ provider.kind = "response")
        => IF provider.status \notin 200..299
           THEN /\ resp.status = provider.status
                /\ resp.body.success = FALSE
                /\ Contains(resp.body.error, provider.body.text)
           ELSE ~ProviderFailurePath

\* C3 (amended): a provider answer with a status s other than 200 and body
\* b is relayed as status s, success false and an error containing b; only
\* an answer with status 200 never takes that path.
C3_Non200Relayed ==
    (Responded("get-arv") /\ provider.kind = "response")
        => IF provider.status /= 200
           THEN /\ resp.status = provider.status
                /\ ProviderFailurePath
                /\ Contains(resp.body.error, provider.body.text)
           ELSE ~ProviderFailurePath

C3_Witness ==
    /\ Responded("get-arv")
    /\ provider.kind = "response"
    /\ provider.status = 503
    /\ provider.body.text = "Service Unavailable"
    /\ resp.status = 503
    /\ Contains(resp.body.error, "Service Unavailable")

HasRootAddress == data.kind = "map" /\ "address" \in DOMAIN data.root

\* C4 as stated: whenever the payload holds a root-level `address` key, the
\* resolved address is the root-level value (an empty value counting as
\* equal to any other empty value).
C4_RootAddressKeyWins ==
    (endpoint = "get-arv" /\ HasRootAddress /\ address /= Unbound)
        => ((Truthy(address) \/ Truthy(data.root["address"]))
               => address = data.root["address"])

\* C4 (amended): whenever the payload holds a non-empty root-level
\* `address`, the resolved address - sent to the provider, echoed in
\* property.address or extracted.address - is the root-level value,
\* whatever customData.address, contact.address1 and address1 hold.
C4_RootAddressWins ==
    (endpoint = "get-arv" /\ HasRootAddress /\ Truthy(data.root["address"]))
        => /\ address = data.root["address"]
           /\ calls = 1 => params.address = data.root["address"]
           /\ (pc = "responded" /\ "extracted" \in DOMAIN resp.body)
                 => resp.body.extracted.address = data.root["address"]
           /\ (pc = "responded" /\ "property" \in DOMAIN resp.body)
                 => resp.body.property.address = data.root["address"]

C4_Witness ==
    /\ Responded("get-arv")
    /\ HasRootAddress
    /\ Truthy(data.root["address"])
    /\ Truthy(PlaceValue(data, <<"customData", "address">>))
    /\ Truthy(PlaceValue(data, <<"contact", "address1">>))
    /\ "extracted" \in DOMAIN resp.body
    /\ resp.body.extracted.address = data.root["address"]

\* C5: a provider call that times out is answered 504 with success false
\* and the fixed timeout message, never any other status.
C5_TimeoutIs504 ==
    (Responded("get-arv") /\ provider.kind = "timeout")
        => resp = Response(504, [success |-> FALSE,
                                 error |-> <<"RentCast API request timed out">>])

C5_Witness ==
    /\ Responded("get-arv")
    /\ provider.kind = "timeout"
    /\ resp.status = 504

ProviderSucceeded ==
    /\ provider.kind = "response"
    /\ provider.status = 200
    /\ provider.body.kind = "json_object"

\* C6: a successful provider answer with JSON object D is answered 200 with
\* success true, the four resolved fields as `property`, D.price and
\* D.confidence (0 when absent) as afterRepairValue and confidenceScore,
\* and D itself as fullData.
C6_SuccessShape ==
    (Responded("get-arv") /\ ProviderSucceeded)
        => LET D == provider.body.obj
           IN  /\ resp.status = 200
               /\ resp.body.success = TRUE
               /\ resp.body.property = [address |-> address, city |-> city,
                                        state |-> state, zipCode |-> zip_code]
               /\ resp.body.property = params
               /\ resp.body.afterRepairValue = (IF "price" \in DOMAIN D THEN D["price"] ELSE 0)
               /\ resp.body.confidenceScore =
                      (IF "confidence" \in DOMAIN D THEN D["confidence"] ELSE 0)
               /\ resp.body.fullData = D

C6_Witness ==
    /\ Responded("get-arv")
    /\ ProviderSucceeded
    /\ provider.body.obj = [price |-> 250000, confidence |-> 80]
    /\ resp.status = 200
    /\ resp.body.afterRepairValue = 250000
    /\ resp.body.confidenceScore = 80

\* The provider call failed at the transport level other than by a timeout:
\* the connection failed, or the body of a 200 answer is not the JSON
\* object expected.
TransportFailure ==
    \/ provider.kind = "connection_error"
    \/ /\ provider.kind = "response"
       /\ provider.status = 200
       /\ provider.body.kind \in {"text", "json_array"}

\* C7: every transport-level failure other than a timeout is answered 500
\* with success false and an error carrying the failure's description.
C7_TransportFailureIs500 ==
    (Responded("get-arv") /\ TransportFailure)
        => /\ resp.status = 500
           /\ resp.body.success = FALSE
           /\ Len(resp.body.error) = 2
           /\ resp.body.error[2] /= ""
           /\ provider.kind = "connection_error" => resp.body.error[2] = provider.desc

C7_Witness ==
    /\ Responded("get-arv")
    /\ provider.kind = "connection_error"
    /\ resp.status = 500
    /\ resp.body.error = <<"Error calling RentCast API: ", "Connection reset by peer">>

\* C8: every response of /get-arv has status 200 exactly when its success
\* flag is true, and carries an error string when the flag is false.
C8_StatusMatchesSuccess ==
    Responded("get-arv")
        => /\ (resp.status = 200) <=> (resp.body.success = TRUE)
           /\ resp.body.success = FALSE
                 => ("error" \in DOMAIN resp.body /\ IsMessage(resp.body.error))

C8_Witness ==
    /\ Responded("get-arv")
    /\ "extracted" \in DOMAIN resp.body
    /\ resp.status = 400
    /\ resp.body.success = FALSE

\* C9: each field that extraction resolved holds the first non-empty value
\* along its chain of places, and is empty only when every place of the
\* chain is empty.
C9_FirstNonEmptyWins ==
    (endpoint = "get-arv" /\ data.kind = "map")
        => \A f \in Fields :
              Resolved(f) /= Unbound
                 => IF NonEmptyPlaces(data, f) = {}
                    THEN ~Truthy(Resolved(f))
                    ELSE Resolved(f) =
                            PlaceValue(data, SpecChain(f)[FirstOf(NonEmptyPlaces(data, f))])

C9_Witness ==
    /\ endpoint = "get-arv"
    /\ data.kind = "map"
    /\ ~Truthy(PlaceValue(data, <<"data", "zipCode">>))
    /\ Truthy(PlaceValue(data, <<"data", "postal_code">>))
    /\ Truthy(PlaceValue(data, <<"customData", "zipCode">>))
    /\ zip_code = data.root["postal_code"]

\* The request ended in the validation outcome or failed before the call
\* could be prepared.
EndedBeforeCall ==
    /\ Responded("get-arv")
    /\ \/ "extracted" \in DOMAIN resp.body
       \/ data.kind /= "map"
       \/ \E f \in Fields : Resolved(f) = Unbound

\* C10: one /get-arv request issues the provider GET at most once, only
\* after all four fields resolved non-empty and with exactly those four
\* values as parameters; a request that ends in the validation outcome or
\* fails on its payload issues none.
C10_AtMostOneCall ==
    endpoint = "get-arv"
        => /\ calls <= 1
           /\ calls = 1 => /\ \A f \in Fields : Truthy(Resolved(f)) /\ Resolved(f) /= Unbound
                           /\ params = [address |-> address, city |-> city,
                                        state |-> state, zipCode |-> zip_code]
           /\ pc = "calling" => calls = 1
           /\ (pc = "responded" /\ provider /= NoOutcome) => calls = 1
           /\ EndedBeforeCall => (calls = 0 /\ provider = NoOutcome)

C10_Witness ==
    /\ Responded("get-arv")
    /\ provider.kind = "response"
    /\ provider.status = 503
    /\ calls = 1
    /\ params.zipCode = zip_code

====
